---- MODULE Spec2Model ----
(***************************************************************************)
(* A model of the discord client of Mutterblack (package discord): the     *)
(* session pool (Open), the per-shard event callbacks feeding messageChan, *)
(* the state aggregator (Channel, Guild, UserChannelPermissions,           *)
(* UserColor), the content normaliser of DiscordMessage and the outbound   *)
(* operations.  Go strings that the code scans are sequences of            *)
(* one-character strings; a nil pointer is a record [nil |-> TRUE]; a      *)
(* *string field is <<>> when nil and <<v>> when set.                      *)
(***************************************************************************)
EXTENDS Integers, Sequences, FiniteSets, TLC

VARIABLES
    openpc,       \* position of the single call of Open()
    openI,        \* the loop index i of Open()
    shards,       \* s.Shards as reported by GatewayBot()
    openRet,      \* what Open() returned: [chan, err]
    Sessions,     \* d.Sessions, entry i+1 is the shard with ShardID i
    Session,      \* d.Session: 0 when nil, else the index into Sessions
    openLog,      \* the indexes on which session.Open() was called, in order
    events,       \* every event a shard delivered to a callback, in order
    heap,         \* the DiscordMessage instances, by pointer
    cb,           \* per shard: the pointer its callback is blocked sending, or 0
    messageChan,  \* d.messageChan: the pointers buffered in the channel
    received,     \* the pointers the consumer received, in order
    cacheOps,     \* how many updates the shards' state caches have taken
    ret,          \* the call of the client that has just returned, if any
    cons,         \* per consumer: where it is in Message() or UserName()
    firstRet      \* per instance: what Message() and UserName() first returned,
                  \* and the consumers whose call began after that return

vars == <<openpc, openI, shards, openRet, Sessions, Session, openLog,
          events, heap, cb, messageChan, received, cacheOps, ret,
          cons, firstRet>>

openVars == <<openpc, openI, shards, openRet, Session, openLog>>
dispVars == <<events, heap, cb, messageChan, received>>

\* No call of the client returns in this step.
NoCall == [op |-> "none"]
consVars == <<cons, firstRet>>
NoCallStep == ret' = NoCall /\ UNCHANGED cacheOps /\ UNCHANGED consVars

(***************************************************************************)
(* Bounds                                                                  *)
(***************************************************************************)
MaxShards == 2
MaxEvents == 2
ChanCap == 1
MaxCacheOps == 3
NumConsumers == 2
MaxPieces == 2

ShardIx == 1..MaxShards
Consumers == 1..NumConsumers

(***************************************************************************)
(* Values                                                                  *)
(***************************************************************************)
MessageTypeCreate == "create"
MessageTypeUpdate == "update"
MessageTypeDelete == "delete"

NilSession == [nil |-> TRUE]
NilAuthor == [nil |-> TRUE]

Str(c) == <<c>>
EmptyStr == <<>>

\* discordgo.User values the gateway may deliver as a message's Author.
User(id, name, bot) == [nil |-> FALSE, ID |-> id, Username |-> name, Bot |-> bot]

\* The identifiers the shards' caches are keyed by.
ChannelIDs == {Str("1"), Str("2")}
GuildIDs == {"g1", "g2"}
UserIDs == {"u1", "me"}
StateKeys == UserIDs \X ChannelIDs

NilChannel == [nil |-> TRUE]
NilGuild == [nil |-> TRUE]
ErrNil == "nil"
ErrStateNotFound == "state cache not found"

\* discordgo.Channel, discordgo.Guild, discordgo.Role and discordgo.Member, with
\* the fields the client reads.
ChannelRec(id, name, guild, type) ==
    [nil |-> FALSE, ID |-> id, Name |-> name, GuildID |-> guild, Type |-> type]
Role(id, name) == [ID |-> id, Name |-> name]
Member(user, nick) == [User |-> user, Nick |-> nick]
GuildRec(id, owner, roles, members) ==
    [nil |-> FALSE, ID |-> id, OwnerID |-> owner, Roles |-> roles, Members |-> members]

\* session.State of a new session: nothing cached.
EmptyState ==
    [Channels |-> [id \in ChannelIDs |-> NilChannel],
     Guilds   |-> [id \in GuildIDs |-> NilGuild],
     Perms    |-> [k \in StateKeys |-> [known |-> FALSE]],
     Colors   |-> [k \in StateKeys |-> [known |-> FALSE]],
     User     |-> NilAuthor]

\* A freshly constructed shard session, as Open() configures it.
NewSession(i, n) ==
    [nil |-> FALSE, ShardID |-> i, ShardCount |-> n, handlers |-> <<>>,
     TrackPresences |-> TRUE, opened |-> "no", State |-> EmptyState]

AddHandler(s, h) == [s EXCEPT !.handlers = Append(@, h)]

(***************************************************************************)
(* Open()                                                                  *)
(***************************************************************************)
\* gateway, err := discordgo.New(d.args...)
OpenNew ==
    /\ openpc = "idle"
    /\ \/ /\ openpc' = "gatewaybot"
          /\ UNCHANGED openRet
       \/ /\ openpc' = "returned"
          /\ openRet' = [chan |-> FALSE, err |-> TRUE]
    /\ UNCHANGED <<openI, shards, Sessions, Session, openLog>>
    /\ UNCHANGED dispVars
    /\ NoCallStep

\* s, err := gateway.GatewayBot(); d.Sessions = make(..., s.Shards)
OpenGatewayBot ==
    /\ openpc = "gatewaybot"
    /\ \/ \E n \in 0..MaxShards :
             /\ shards' = n
             /\ Sessions' = [k \in 1..n |-> NilSession]
             /\ openI' = 0
             /\ openpc' = "construct"
             /\ UNCHANGED openRet
       \/ /\ openpc' = "returned"
          /\ openRet' = [chan |-> FALSE, err |-> TRUE]
          /\ UNCHANGED <<shards, Sessions, openI>>
    /\ UNCHANGED <<Session, openLog>>
    /\ UNCHANGED dispVars
    /\ NoCallStep

\* One iteration of the construction loop, lines 214-227.
OpenConstructMut ==
    /\ openpc = "construct"
    /\ openI < shards
    /\ \/ /\ Sessions' = [Sessions EXCEPT ![openI + 1] =
                 [AddHandler(AddHandler(AddHandler(NewSession(openI, shards),
                     MessageTypeCreate), MessageTypeUpdate), MessageTypeDelete)
                  EXCEPT !.TrackPresences = FALSE, !.opened = "ok"]]
          /\ openI' = openI + 1
          /\ UNCHANGED <<openpc, openRet>>
       \/ /\ openpc' = "returned"
          /\ openRet' = [chan |-> FALSE, err |-> TRUE]
          /\ UNCHANGED <<Sessions, openI>>
    /\ UNCHANGED <<shards, Session, openLog>>
    /\ UNCHANGED dispVars
    /\ NoCallStep

OpenConstruct ==
    /\ openpc = "construct"
    /\ openI < shards
    /\ \/ /\ Sessions' = [Sessions EXCEPT ![openI + 1] =
                 [AddHandler(AddHandler(AddHandler(NewSession(openI, shards),
                     MessageTypeCreate), MessageTypeUpdate), MessageTypeDelete)
                  EXCEPT !.TrackPresences = FALSE]]
          /\ openI' = openI + 1
          /\ UNCHANGED <<openpc, openRet>>
       \/ /\ openpc' = "returned"
          /\ openRet' = [chan |-> FALSE, err |-> TRUE]
          /\ UNCHANGED <<Sessions, openI>>
    /\ UNCHANGED <<shards, Session, openLog>>
    /\ UNCHANGED dispVars
    /\ NoCallStep

\* d.Session = d.Sessions[0]: an index out of range when the list is empty.
OpenPrimary ==
    /\ openpc = "construct"
    /\ openI >= shards
    /\ IF Len(Sessions) = 0
          THEN /\ openpc' = "panic"
               /\ UNCHANGED <<Session, openI>>
          ELSE /\ Session' = 1
               /\ openI' = 0
               /\ openpc' = "opening"
    /\ UNCHANGED <<shards, openRet, Sessions, openLog>>
    /\ UNCHANGED dispVars
    /\ NoCallStep

OpenShardMut ==
    /\ openpc = "opening"
    /\ openI < Len(Sessions)
    /\ \E ok \in BOOLEAN :
          /\ Sessions' = [Sessions EXCEPT ![openI + 1].opened =
                             IF ok THEN "ok" ELSE "failed"]
          /\ IF ok THEN UNCHANGED <<openpc, openRet>>
                   ELSE /\ openpc' = "returned"
                        /\ openRet' = [chan |-> FALSE, err |-> TRUE]
    /\ openLog' = Append(openLog, openI)
    /\ openI' = openI + 1
    /\ UNCHANGED <<shards, Session>>
    /\ UNCHANGED dispVars
    /\ NoCallStep

\* d.Sessions[i].Open(): its error is not looked at.
OpenShard ==
    /\ openpc = "opening"
    /\ openI < Len(Sessions)
    /\ \E ok \in BOOLEAN :
          Sessions' = [Sessions EXCEPT ![openI + 1].opened =
                          IF ok THEN "ok" ELSE "failed"]
    /\ openLog' = Append(openLog, openI)
    /\ openI' = openI + 1
    /\ UNCHANGED <<openpc, shards, openRet, Session>>
    /\ UNCHANGED dispVars
    /\ NoCallStep

\* return d.messageChan, nil
OpenReturn ==
    /\ openpc = "opening"
    /\ openI >= Len(Sessions)
    /\ openpc' = "returned"
    /\ openRet' = [chan |-> TRUE, err |-> FALSE]
    /\ UNCHANGED <<openI, shards, Sessions, Session, openLog>>
    /\ UNCHANGED dispVars
    /\ NoCallStep

Open ==
    \/ OpenNew
    \/ OpenGatewayBot
    \/ OpenConstruct
    \/ OpenPrimary
    \/ OpenShard
    \/ OpenReturn

(***************************************************************************)
(* The event callbacks and messageChan                                     *)
(***************************************************************************)
\* A shard delivers events to its handlers once its connection is open.
Connected(s) ==
    /\ s \in 1..Len(Sessions)
    /\ ~Sessions[s].nil
    /\ Sessions[s].opened = "ok"

HasHandler(s, kind) ==
    \E k \in 1..Len(Sessions[s].handlers) : Sessions[s].handlers[k] = kind

\* The guard of onMessageCreate and onMessageUpdate, lines 156 and 168.
FilteredMut(m) == m.Content = EmptyStr /\ (~m.Author.nil /\ m.Author.Bot)
Filtered(m) == m.Content = EmptyStr \/ (~m.Author.nil /\ m.Author.Bot)

GoMessage(id, channel, content, author, mentions) ==
    [ID |-> id, ChannelID |-> channel, Content |-> content, Author |-> author,
     Mentions |-> mentions]

DiscordMessage(m, type) ==
    [DiscordgoMessage |-> m, MessageType |-> type, Nick |-> <<>>, Content |-> <<>>]

\* The callback allocates a DiscordMessage and blocks on d.messageChan <- it.
Enqueue(s, m, type) ==
    /\ heap' = Append(heap, DiscordMessage(m, type))
    /\ cb' = [cb EXCEPT ![s] = Len(heap) + 1]

Deliver(s, m, kind) ==
    /\ Connected(s)
    /\ HasHandler(s, kind)
    /\ cb[s] = 0
    /\ Len(events) < MaxEvents
    /\ m.ID = Len(events) + 1
    /\ events' = Append(events, [shard |-> s, kind |-> kind, msg |-> m])

onMessageCreate(s, m) ==
    /\ Deliver(s, m, MessageTypeCreate)
    /\ IF Filtered(m)
          THEN UNCHANGED <<heap, cb>>
          ELSE Enqueue(s, m, MessageTypeCreate)
    /\ UNCHANGED <<messageChan, received, Sessions>>
    /\ UNCHANGED openVars
    /\ NoCallStep

onMessageUpdateMut(s, m) ==
    /\ Deliver(s, m, MessageTypeUpdate)
    /\ IF Filtered(m)
          THEN UNCHANGED <<heap, cb>>
          ELSE Enqueue(s, m, MessageTypeCreate)
    /\ UNCHANGED <<messageChan, received, Sessions>>
    /\ UNCHANGED openVars
    /\ NoCallStep

onMessageUpdate(s, m) ==
    /\ Deliver(s, m, MessageTypeUpdate)
    /\ IF Filtered(m)
          THEN UNCHANGED <<heap, cb>>
          ELSE Enqueue(s, m, MessageTypeUpdate)
    /\ UNCHANGED <<messageChan, received, Sessions>>
    /\ UNCHANGED openVars
    /\ NoCallStep

onMessageDeleteMut(s, m) ==
    /\ Deliver(s, m, MessageTypeDelete)
    /\ IF Filtered(m)
          THEN UNCHANGED <<heap, cb>>
          ELSE Enqueue(s, m, MessageTypeDelete)
    /\ UNCHANGED <<messageChan, received, Sessions>>
    /\ UNCHANGED openVars
    /\ NoCallStep

onMessageDelete(s, m) ==
    /\ Deliver(s, m, MessageTypeDelete)
    /\ Enqueue(s, m, MessageTypeDelete)
    /\ UNCHANGED <<messageChan, received, Sessions>>
    /\ UNCHANGED openVars
    /\ NoCallStep

ChanSendMut(s) ==
    /\ cb[s] # 0
    /\ messageChan' = IF Len(messageChan) < ChanCap
                         THEN Append(messageChan, cb[s])
                         ELSE messageChan
    /\ cb' = [cb EXCEPT ![s] = 0]
    /\ UNCHANGED <<events, heap, received, Sessions>>
    /\ UNCHANGED openVars
    /\ NoCallStep

\* The blocked send completes: the channel has room for the message.
ChanSend(s) ==
    /\ cb[s] # 0
    /\ Len(messageChan) < ChanCap
    /\ messageChan' = Append(messageChan, cb[s])
    /\ cb' = [cb EXCEPT ![s] = 0]
    /\ UNCHANGED <<events, heap, received, Sessions>>
    /\ UNCHANGED openVars
    /\ NoCallStep

\* The blocked send completes by handing the message to a waiting receiver.
ChanHandoff(s) ==
    /\ openRet.chan
    /\ cb[s] # 0
    /\ messageChan = <<>>
    /\ received' = Append(received, cb[s])
    /\ cb' = [cb EXCEPT ![s] = 0]
    /\ UNCHANGED <<events, heap, messageChan, Sessions>>
    /\ UNCHANGED openVars
    /\ NoCallStep

\* The consumer of the channel Open() returned takes the oldest message.
Receive ==
    /\ openRet.chan
    /\ messageChan # <<>>
    /\ received' = Append(received, Head(messageChan))
    /\ messageChan' = Tail(messageChan)
    /\ UNCHANGED <<events, heap, cb, Sessions>>
    /\ UNCHANGED openVars
    /\ NoCallStep

(***************************************************************************)
(* The state aggregator                                                    *)
(***************************************************************************)
\* The gateway fills the cache of a connected shard.
CacheStep(s) ==
    /\ Connected(s)
    /\ cacheOps < MaxCacheOps
    /\ cacheOps' = cacheOps + 1
    /\ ret' = NoCall
    /\ UNCHANGED openVars
    /\ UNCHANGED dispVars
    /\ UNCHANGED consVars

CacheChannel(s, c) ==
    /\ CacheStep(s)
    /\ Sessions' = [Sessions EXCEPT ![s].State.Channels[c.ID] = c]

CacheGuild(s, g) ==
    /\ CacheStep(s)
    /\ Sessions' = [Sessions EXCEPT ![s].State.Guilds[g.ID] = g]

CachePerms(s, k, p) ==
    /\ CacheStep(s)
    /\ Sessions' = [Sessions EXCEPT ![s].State.Perms[k] = [known |-> TRUE, val |-> p]]

CacheColor(s, k, c) ==
    /\ CacheStep(s)
    /\ Sessions' = [Sessions EXCEPT ![s].State.Colors[k] = [known |-> TRUE, val |-> c]]

\* The Ready event tells the shard which user the client is logged in as.
CacheReady(s, u) ==
    /\ CacheStep(s)
    /\ Sessions' = [Sessions EXCEPT ![s].State.User = u]

\* s.State.Channel, s.State.Guild, s.State.UserChannelPermissions and
\* s.State.UserColor of one shard.
Result(val, err) == [val |-> val, err |-> err, panic |-> FALSE]
NilDeref == [val |-> 0, err |-> ErrNil, panic |-> TRUE]

StateChannel(st, id) ==
    IF id \in ChannelIDs /\ ~st.Channels[id].nil
       THEN Result(st.Channels[id], ErrNil)
       ELSE Result(NilChannel, ErrStateNotFound)

StateGuild(st, id) ==
    IF id \in GuildIDs /\ ~st.Guilds[id].nil
       THEN Result(st.Guilds[id], ErrNil)
       ELSE Result(NilGuild, ErrStateNotFound)

StateUserChannelPermissions(st, u, c) ==
    IF <<u, c>> \in StateKeys /\ st.Perms[<<u, c>>].known
       THEN Result(st.Perms[<<u, c>>].val, ErrNil)
       ELSE Result(0, ErrStateNotFound)

StateUserColor(st, u, c) ==
    IF <<u, c>> \in StateKeys /\ st.Colors[<<u, c>>].known
       THEN st.Colors[<<u, c>>].val
       ELSE 0

\* What each shard of the list answers, in list order; a nil entry cannot be
\* asked.
ChannelAnswers(channelID) ==
    [i \in 1..Len(Sessions) |->
        IF Sessions[i].nil THEN NilDeref ELSE StateChannel(Sessions[i].State, channelID)]

GuildAnswers(guildID) ==
    [i \in 1..Len(Sessions) |->
        IF Sessions[i].nil THEN NilDeref ELSE StateGuild(Sessions[i].State, guildID)]

PermAnswers(userID, channelID) ==
    [i \in 1..Len(Sessions) |->
        IF Sessions[i].nil THEN NilDeref
        ELSE StateUserChannelPermissions(Sessions[i].State, userID, channelID)]

\* for _, s := range d.Sessions { v, err = ...; if err == nil { return v, nil } }
\* return: the named results keep what the last shard answered, and their zero
\* values when the list is empty.
RECURSIVE ScanFrom(_, _, _, _)
ScanFrom(rs, i, val, err) ==
    IF i > Len(rs) THEN [val |-> val, err |-> err, panic |-> FALSE, consulted |-> Len(rs)]
    ELSE IF rs[i].panic THEN [val |-> val, err |-> err, panic |-> TRUE, consulted |-> i]
    ELSE IF rs[i].err = ErrNil
         THEN [val |-> rs[i].val, err |-> ErrNil, panic |-> FALSE, consulted |-> i]
    ELSE ScanFrom(rs, i + 1, rs[i].val, rs[i].err)

\* The same loop taking the last shard that answers instead of the first.
RECURSIVE ScanLast(_, _, _, _)
ScanLast(rs, i, val, err) ==
    IF i < 1 THEN [val |-> val, err |-> err, panic |-> FALSE, consulted |-> Len(rs)]
    ELSE IF rs[i].panic THEN [val |-> val, err |-> err, panic |-> TRUE, consulted |-> i]
    ELSE IF rs[i].err = ErrNil
         THEN [val |-> rs[i].val, err |-> ErrNil, panic |-> FALSE, consulted |-> i]
    ELSE ScanLast(rs, i - 1, rs[i].val, rs[i].err)

ChannelMut(channelID) ==
    ScanLast(ChannelAnswers(channelID), Len(Sessions), NilChannel, ErrNil)

Channel(channelID) ==
    ScanFrom(ChannelAnswers(channelID), 1, NilChannel, ErrNil)

Guild(guildID) ==
    ScanFrom(GuildAnswers(guildID), 1, NilGuild, ErrNil)

UserChannelPermissions(userID, channelID) ==
    ScanFrom(PermAnswers(userID, channelID), 1, 0, ErrNil)

\* for _, s := range d.Sessions { color := ...; if color != 0 { return color } }
RECURSIVE UserColorFrom(_, _, _)
UserColorFrom(i, userID, channelID) ==
    IF i > Len(Sessions) THEN [val |-> 0, panic |-> FALSE]
    ELSE IF Sessions[i].nil THEN [val |-> 0, panic |-> TRUE]
    ELSE LET color == StateUserColor(Sessions[i].State, userID, channelID)
         IN  IF color # 0 THEN [val |-> color, panic |-> FALSE]
             ELSE UserColorFrom(i + 1, userID, channelID)

\* The same loop returning what the first shard answers, zero or not.
UserColorMut(userID, channelID) ==
    IF Len(Sessions) = 0 THEN [val |-> 0, panic |-> FALSE]
    ELSE IF Sessions[1].nil THEN [val |-> 0, panic |-> TRUE]
    ELSE [val |-> StateUserColor(Sessions[1].State, userID, channelID), panic |-> FALSE]

UserColor(userID, channelID) == UserColorFrom(1, userID, channelID)

\* The client is called before Open() or after Open() returned the queue; a
\* startup failure is fatal and the client is not used after it.
Usable ==
    \/ openpc = "idle"
    \/ (openpc = "returned" /\ ~openRet.err)

CallStep ==
    /\ Usable
    /\ UNCHANGED <<Sessions, cacheOps>>
    /\ UNCHANGED openVars
    /\ UNCHANGED dispVars
    /\ UNCHANGED consVars

CallChannel(id) ==
    /\ CallStep
    /\ ret' = [op |-> "Channel", id |-> id, res |-> Channel(id)]

CallGuild(id) ==
    /\ CallStep
    /\ ret' = [op |-> "Guild", id |-> id, res |-> Guild(id)]

CallUserChannelPermissions(u, c) ==
    /\ CallStep
    /\ ret' = [op |-> "UserChannelPermissions", user |-> u, channel |-> c,
                res |-> UserChannelPermissions(u, c)]

CallUserColor(u, c) ==
    /\ CallStep
    /\ ret' = [op |-> "UserColor", user |-> u, channel |-> c, res |-> UserColor(u, c)]

\* The cache contents and the keys of the aggregator's specification.
TypeText == 0
TypeDM == 1
PermissionEmbedLinks == 16384
PermissionAdministrator == 8
PermissionManageChannels == 16
PermissionManageServer == 32

AggChannels ==
    {ChannelRec(Str("1"), Str(n), "g1", TypeText) : n \in {"a", "b"}}
AggGuilds == {GuildRec("g1", o, <<>>, <<>>) : o \in {"u1", "me"}}
AggKey == <<"u1", Str("1")>>
AggPerms == {0, PermissionEmbedLinks}
AggColors == {0, 5, 7}

CacheAgg ==
    \/ \E s \in ShardIx, c \in AggChannels : CacheChannel(s, c)
    \/ \E s \in ShardIx, g \in AggGuilds : CacheGuild(s, g)
    \/ \E s \in ShardIx, p \in AggPerms : CachePerms(s, AggKey, p)
    \/ \E s \in ShardIx, c \in AggColors : CacheColor(s, AggKey, c)

NextAgg ==
    \/ Open
    \/ CacheAgg
    \/ \E id \in {Str("1"), Str("2")} : CallChannel(id)
    \/ \E id \in GuildIDs : CallGuild(id)
    \/ \E k \in {AggKey, <<"me", Str("2")>>} : CallUserChannelPermissions(k[1], k[2])
    \/ \E k \in {AggKey, <<"me", Str("2")>>} : CallUserColor(k[1], k[2])

(***************************************************************************)
(* The content normaliser and the memoised fields of DiscordMessage        *)
(***************************************************************************)
Digits == {"0", "1", "2", "3", "4", "5", "6", "7", "8", "9"}

\* A value computed by code that may dereference a nil pointer on the way.
Ok(v) == [val |-> v, panic |-> FALSE]
Panicked == [val |-> <<>>, panic |-> TRUE]
Cat(a, b) == [val |-> a.val \o b.val, panic |-> a.panic \/ b.panic]

HasPrefixAt(s, i, prefix) ==
    /\ i + Len(prefix) - 1 <= Len(s)
    /\ SubSeq(s, i, i + Len(prefix) - 1) = prefix

\* The first position at or after i of s that holds no digit.
RECURSIVE SkipDigits(_, _)
SkipDigits(s, i) ==
    IF i <= Len(s) /\ s[i] \in Digits THEN SkipDigits(s, i + 1) ELSE i

\* Where a match of prefix[0-9]*> starting at position i of s ends, 0 if none.
MatchEnd(s, i, prefix) ==
    IF ~HasPrefixAt(s, i, prefix) THEN 0
    ELSE LET j == SkipDigits(s, i + Len(prefix))
         IN  IF j <= Len(s) /\ s[j] = ">" THEN j ELSE 0

channelIDRegex == <<"<", "#">>
roleIDRegex == <<"<", "@", "&">>

\* The function replaceChannelNames hands to ReplaceAllStringFunc.
channelNameMut(str) ==
    LET c == Channel(SubSeq(str, 3, Len(str) - 1))
    IN  IF c.err # ErrNil THEN Ok(<<"#">> \o SubSeq(str, 3, Len(str) - 1))
        ELSE IF c.val.nil THEN Panicked
        ELSE Ok(<<"#">> \o c.val.Name)

channelName(str) ==
    LET c == Channel(SubSeq(str, 3, Len(str) - 1))
    IN  IF c.err # ErrNil THEN Ok(str)
        ELSE IF c.val.nil THEN Panicked
        ELSE Ok(<<"#">> \o c.val.Name)

\* channelIDRegex.ReplaceAllStringFunc(content, ...), from position i on: the
\* leftmost match is replaced and the scan goes on after it.
RECURSIVE replaceChannelNamesFrom(_, _)
replaceChannelNamesFrom(content, i) ==
    IF i > Len(content) THEN Ok(<<>>)
    ELSE LET j == MatchEnd(content, i, channelIDRegex)
         IN  IF j = 0
                THEN Cat(Ok(<<content[i]>>), replaceChannelNamesFrom(content, i + 1))
                ELSE Cat(channelName(SubSeq(content, i, j)),
                         replaceChannelNamesFrom(content, j + 1))

replaceChannelNames(message, content) == replaceChannelNamesFrom(content, 1)

RECURSIVE RoleNamed(_, _, _)
RoleNamed(roles, k, roleID) ==
    IF k > Len(roles) THEN <<>>
    ELSE IF roles[k].ID = roleID THEN <<roles[k]>>
    ELSE RoleNamed(roles, k + 1, roleID)

\* The function replaceRoleNames hands to ReplaceAllStringFunc.
roleNameMut(message, str) ==
    LET roleID == SubSeq(str, 4, Len(str) - 1)
        c == Channel(message.ChannelID)
    IN  IF c.err # ErrNil THEN Ok(str)
        ELSE IF c.val.nil THEN Panicked
        ELSE LET g == Guild(c.val.GuildID)
             IN  IF g.err # ErrNil THEN Ok(str)
                 ELSE IF g.val.nil THEN Panicked
                 ELSE LET r == RoleNamed(g.val.Roles, 1, roleID)
                      IN  IF r # <<>> THEN Ok(<<"@">> \o r[1].Name)
                          ELSE Ok(<<"@">> \o roleID)

roleName(message, str) ==
    LET roleID == SubSeq(str, 4, Len(str) - 1)
        c == Channel(message.ChannelID)
    IN  IF c.err # ErrNil THEN Ok(str)
        ELSE IF c.val.nil THEN Panicked
        ELSE LET g == Guild(c.val.GuildID)
             IN  IF g.err # ErrNil THEN Ok(str)
                 ELSE IF g.val.nil THEN Panicked
                 ELSE LET r == RoleNamed(g.val.Roles, 1, roleID)
                      IN  IF r # <<>> THEN Ok(<<"@">> \o r[1].Name) ELSE Ok(str)

RECURSIVE replaceRoleNamesFrom(_, _, _)
replaceRoleNamesFrom(message, content, i) ==
    IF i > Len(content) THEN Ok(<<>>)
    ELSE LET j == MatchEnd(content, i, roleIDRegex)
         IN  IF j = 0
                THEN Cat(Ok(<<content[i]>>), replaceRoleNamesFrom(message, content, i + 1))
                ELSE Cat(roleName(message, SubSeq(content, i, j)),
                         replaceRoleNamesFrom(message, content, j + 1))

replaceRoleNames(message, content) == replaceRoleNamesFrom(message, content, 1)

\* discordgo's Message.ContentWithMentionsReplaced: for each mentioned user in
\* turn, <@ID> and <@!ID> become @Username.
RECURSIVE ReplaceUser(_, _, _)
ReplaceUser(content, i, user) ==
    IF i > Len(content) THEN <<>>
    ELSE IF HasPrefixAt(content, i, <<"<", "@">> \o user.ID \o <<">">>)
         THEN <<"@">> \o user.Username
              \o ReplaceUser(content, i + Len(user.ID) + 3, user)
    ELSE IF HasPrefixAt(content, i, <<"<", "@", "!">> \o user.ID \o <<">">>)
         THEN <<"@">> \o user.Username
              \o ReplaceUser(content, i + Len(user.ID) + 4, user)
    ELSE <<content[i]>> \o ReplaceUser(content, i + 1, user)

RECURSIVE ReplaceMentions(_, _, _)
ReplaceMentions(content, mentions, k) ==
    IF k > Len(mentions) THEN content
    ELSE ReplaceMentions(ReplaceUser(content, 1, mentions[k]), mentions, k + 1)

ContentWithMentionsReplaced(m) == ReplaceMentions(m.Content, m.Mentions, 1)

RECURSIVE MemberWithIDMut(_, _, _)
MemberWithIDMut(members, k, userID) ==
    IF k > Len(members) THEN <<>>
    ELSE IF members[k].User.ID = userID
              /\ MemberWithIDMut(members, k + 1, userID) = <<>>
         THEN <<members[k]>>
    ELSE MemberWithIDMut(members, k + 1, userID)

RECURSIVE MemberWithID(_, _, _)
MemberWithID(members, k, userID) ==
    IF k > Len(members) THEN <<>>
    ELSE IF members[k].User.ID = userID THEN <<members[k]>>
    ELSE MemberWithID(members, k + 1, userID)

NicknameForIDMut(userID, userName, channelID) ==
    LET c == Channel(channelID)
    IN  IF c.err # ErrNil THEN Ok(EmptyStr)
        ELSE IF c.val.nil THEN Panicked
        ELSE LET g == Guild(c.val.GuildID)
             IN  IF g.err # ErrNil THEN Ok(EmptyStr)
                 ELSE IF g.val.nil THEN Panicked
                 ELSE LET m == MemberWithID(g.val.Members, 1, userID)
                      IN  IF m # <<>> /\ m[1].Nick # EmptyStr
                             THEN Ok(m[1].Nick) ELSE Ok(userName)

NicknameForID(userID, userName, channelID) ==
    LET c == Channel(channelID)
    IN  IF c.err # ErrNil THEN Ok(userName)
        ELSE IF c.val.nil THEN Panicked
        ELSE LET g == Guild(c.val.GuildID)
             IN  IF g.err # ErrNil THEN Ok(userName)
                 ELSE IF g.val.nil THEN Panicked
                 ELSE LET m == MemberWithID(g.val.Members, 1, userID)
                      IN  IF m # <<>> /\ m[1].Nick # EmptyStr
                             THEN Ok(m[1].Nick) ELSE Ok(userName)

\* The instances the consumers hold: those received from the queue.
Received == {received[k] : k \in 1..Len(received)}

Idle == [pc |-> "idle"]
\* The call found the field already set and computes nothing.
Memoised == <<"memoised">>
At(pc, p, c) == [pc |-> pc, p |-> p, c |-> c]

ConsStep(k) ==
    /\ UNCHANGED <<Sessions, cacheOps, events, cb, messageChan, received>>
    /\ UNCHANGED openVars

\* if m.Content == nil { c := m.DiscordgoMessage.ContentWithMentionsReplaced()
MessageRoleNamesMut(k) ==
    /\ cons[k].pc = "role"
    /\ LET out == replaceChannelNames(heap[cons[k].p].DiscordgoMessage, cons[k].c)
       IN  /\ cons' = [cons EXCEPT ![k] =
                  IF out.panic THEN [pc |-> "panic"] ELSE At("channel", cons[k].p, out.val)]
           /\ ret' = [op |-> "replaceRoleNames", p |-> cons[k].p,
                      in |-> cons[k].c, out |-> out]
    /\ UNCHANGED <<heap, firstRet>>
    /\ ConsStep(k)

MessageBegin(k, p) ==
    /\ cons[k].pc = "idle"
    /\ p \in Received
    /\ cons' = [cons EXCEPT ![k] =
           IF heap[p].Content = <<>>
              THEN At("role", p, ContentWithMentionsReplaced(heap[p].DiscordgoMessage))
              ELSE At("return", p, Memoised)]
    /\ ret' = NoCall
    /\ firstRet' = IF firstRet[p].Content # <<>>
                      THEN [firstRet EXCEPT ![p].late = @ \cup {k}]
                      ELSE firstRet
    /\ UNCHANGED heap
    /\ ConsStep(k)

\* c = m.Discord.replaceRoleNames(m.DiscordgoMessage, c)
MessageRoleNames(k) ==
    /\ cons[k].pc = "role"
    /\ LET out == replaceRoleNames(heap[cons[k].p].DiscordgoMessage, cons[k].c)
       IN  /\ cons' = [cons EXCEPT ![k] =
                  IF out.panic THEN [pc |-> "panic"] ELSE At("channel", cons[k].p, out.val)]
           /\ ret' = [op |-> "replaceRoleNames", p |-> cons[k].p,
                      in |-> cons[k].c, out |-> out]
    /\ UNCHANGED <<heap, firstRet>>
    /\ ConsStep(k)

\* c = m.Discord.replaceChannelNames(m.DiscordgoMessage, c)
MessageChannelNames(k) ==
    /\ cons[k].pc = "channel"
    /\ LET out == replaceChannelNames(heap[cons[k].p].DiscordgoMessage, cons[k].c)
       IN  /\ cons' = [cons EXCEPT ![k] =
                  IF out.panic THEN [pc |-> "panic"] ELSE At("store", cons[k].p, out.val)]
           /\ ret' = [op |-> "replaceChannelNames", p |-> cons[k].p,
                      in |-> cons[k].c, out |-> out]
    /\ UNCHANGED <<heap, firstRet>>
    /\ ConsStep(k)

\* m.Content = &c
MessageStore(k) ==
    /\ cons[k].pc = "store"
    /\ heap' = [heap EXCEPT ![cons[k].p].Content = <<cons[k].c>>]
    /\ cons' = [cons EXCEPT ![k] = At("return", cons[k].p, <<>>)]
    /\ ret' = NoCall
    /\ UNCHANGED firstRet
    /\ ConsStep(k)

\* return *m.Content
MessageReturn(k) ==
    /\ cons[k].pc = "return"
    /\ ret' = [op |-> "Message", p |-> cons[k].p, consumer |-> k,
               memoised |-> cons[k].c = Memoised,
               late |-> k \in firstRet[cons[k].p].late,
               val |-> heap[cons[k].p].Content[1]]
    /\ firstRet' = IF firstRet[cons[k].p].Content = <<>>
                      THEN [firstRet EXCEPT ![cons[k].p].Content = heap[cons[k].p].Content]
                      ELSE [firstRet EXCEPT ![cons[k].p].late = @ \ {k}]
    /\ cons' = [cons EXCEPT ![k] = Idle]
    /\ UNCHANGED heap
    /\ ConsStep(k)

\* UserName() up to n := m.Discord.NicknameForID(...)
UserNameBegin(k, p) ==
    /\ cons[k].pc = "idle"
    /\ p \in Received
    /\ LET me == heap[p].DiscordgoMessage
           n == NicknameForID(me.Author.ID, me.Author.Username, me.ChannelID)
       IN  IF me.Author.nil
              THEN /\ ret' = [op |-> "UserName", p |-> p, consumer |-> k,
                               memoised |-> FALSE, late |-> FALSE, val |-> EmptyStr]
                   /\ UNCHANGED <<cons, firstRet>>
           ELSE /\ ret' = NoCall
                /\ cons' = [cons EXCEPT ![k] =
                       IF heap[p].Nick # <<>> THEN At("nreturn", p, Memoised)
                       ELSE IF n.panic THEN [pc |-> "panic"]
                       ELSE At("nstore", p, n.val)]
                /\ firstRet' = IF firstRet[p].Nick # <<>>
                                  THEN [firstRet EXCEPT ![p].late = @ \cup {k}]
                                  ELSE firstRet
    /\ UNCHANGED heap
    /\ ConsStep(k)

\* m.Nick = &n
UserNameStore(k) ==
    /\ cons[k].pc = "nstore"
    /\ heap' = [heap EXCEPT ![cons[k].p].Nick = <<cons[k].c>>]
    /\ cons' = [cons EXCEPT ![k] = At("nreturn", cons[k].p, <<>>)]
    /\ ret' = NoCall
    /\ UNCHANGED firstRet
    /\ ConsStep(k)

\* return *m.Nick
UserNameReturn(k) ==
    /\ cons[k].pc = "nreturn"
    /\ ret' = [op |-> "UserName", p |-> cons[k].p, consumer |-> k,
               memoised |-> cons[k].c = Memoised,
               late |-> k \in firstRet[cons[k].p].late,
               val |-> heap[cons[k].p].Nick[1]]
    /\ firstRet' = IF firstRet[cons[k].p].Nick = <<>>
                      THEN [firstRet EXCEPT ![cons[k].p].Nick = heap[cons[k].p].Nick]
                      ELSE [firstRet EXCEPT ![cons[k].p].late = @ \ {k}]
    /\ cons' = [cons EXCEPT ![k] = Idle]
    /\ UNCHANGED heap
    /\ ConsStep(k)

(***************************************************************************)
(* The action gateway                                                      *)
(***************************************************************************)
ErrAlreadyJoined == "Already joined."
ErrTransport == "transport error"

\* What an outbound operation did: its error, the calls it made on d.Session,
\* and whether it dereferenced a nil d.Session.
Outcome(err, calls) == [err |-> err, calls |-> calls, panic |-> FALSE]
NilSessionPanic == [err |-> ErrNil, calls |-> <<>>, panic |-> TRUE]
TransportErr(ok) == IF ok THEN ErrNil ELSE ErrTransport

\* d.UserID()
UserID ==
    IF Sessions[Session].State.User.nil THEN "" ELSE Sessions[Session].State.User.ID

SendMessage(channel, message, ok) ==
    IF channel = EmptyStr THEN Outcome(ErrNil, <<>>)
    ELSE IF Session = 0 THEN NilSessionPanic
    ELSE Outcome(TransportErr(ok),
                 <<[call |-> "ChannelMessageSend", channel |-> channel, body |-> message]>>)

SendEmbedMessage(channel, message, ok) ==
    IF channel = EmptyStr THEN Outcome(ErrNil, <<>>)
    ELSE IF Session = 0 THEN NilSessionPanic
    ELSE Outcome(TransportErr(ok),
                 <<[call |-> "ChannelMessageSendEmbed", channel |-> channel, body |-> message]>>)

HasBit(p, bit) == (p \div bit) % 2 = 1

SendActionMut(channel, message, ok) ==
    IF channel = EmptyStr THEN Outcome(ErrNil, <<>>)
    ELSE IF Session = 0 THEN NilSessionPanic
    ELSE LET p == UserChannelPermissions(UserID, channel)
         IN  IF p.err # ErrNil THEN SendMessage(channel, message, ok)
             ELSE IF p.val # 0
                  THEN Outcome(TransportErr(ok),
                          <<[call |-> "ChannelMessageSendEmbed", channel |-> channel,
                             body |-> [Color |-> UserColor(UserID, channel).val,
                                       Description |-> message]]>>)
             ELSE SendMessage(channel, message, ok)

SendActionRetryMut(channel, message, ok) ==
    IF channel = EmptyStr THEN Outcome(ErrNil, <<>>)
    ELSE IF Session = 0 THEN NilSessionPanic
    ELSE LET p == UserChannelPermissions(UserID, channel)
         IN  IF p.err # ErrNil THEN SendMessage(channel, message, ok)
             ELSE IF HasBit(p.val, PermissionEmbedLinks)
                  THEN LET embed == [call |-> "ChannelMessageSendEmbed",
                                     channel |-> channel,
                                     body |-> [Color |-> UserColor(UserID, channel).val,
                                               Description |-> message]]
                       IN  IF ok THEN Outcome(ErrNil, <<embed>>)
                           ELSE Outcome(ErrNil, <<embed>> \o
                                    SendMessage(channel, message, TRUE).calls)
             ELSE SendMessage(channel, message, ok)

SendAction(channel, message, ok) ==
    IF channel = EmptyStr THEN Outcome(ErrNil, <<>>)
    ELSE IF Session = 0 THEN NilSessionPanic
    ELSE LET p == UserChannelPermissions(UserID, channel)
         IN  IF p.err # ErrNil THEN SendMessage(channel, message, ok)
             ELSE IF HasBit(p.val, PermissionEmbedLinks)
                  THEN Outcome(TransportErr(ok),
                          <<[call |-> "ChannelMessageSendEmbed", channel |-> channel,
                             body |-> [Color |-> UserColor(UserID, channel).val,
                                       Description |-> message]]>>)
             ELSE SendMessage(channel, message, ok)

\* The operations that pass their arguments to one call of d.Session and
\* return its error, lines 297-299 and 309-315 and 330-332.
DeleteMessage(channel, messageID, ok) ==
    IF Session = 0 THEN NilSessionPanic
    ELSE Outcome(TransportErr(ok),
                 <<[call |-> "ChannelMessageDelete", channel |-> channel,
                    body |-> messageID]>>)

\* The duration is not passed on: the ban is made with 0 days.
BanUser(channel, userID, duration, ok) ==
    IF Session = 0 THEN NilSessionPanic
    ELSE Outcome(TransportErr(ok),
                 <<[call |-> "GuildBanCreate", channel |-> channel,
                    body |-> <<userID, 0>>]>>)

UnbanUser(channel, userID, ok) ==
    IF Session = 0 THEN NilSessionPanic
    ELSE Outcome(TransportErr(ok),
                 <<[call |-> "GuildBanDelete", channel |-> channel,
                    body |-> userID]>>)

Typing(channel, ok) ==
    IF Session = 0 THEN NilSessionPanic
    ELSE Outcome(TransportErr(ok),
                 <<[call |-> "ChannelTyping", channel |-> channel,
                    body |-> EmptyStr]>>)

\* PrivateMessage: c is what d.Session.UserChannelCreate answered ([ok, id]),
\* ok whether the send that follows succeeds.
PrivateMessage(userID, message, c, ok) ==
    IF Session = 0 THEN NilSessionPanic
    ELSE LET create == [call |-> "UserChannelCreate", channel |-> userID,
                        body |-> EmptyStr]
         IN  IF ~c.ok THEN Outcome(ErrTransport, <<create>>)
             ELSE LET r == SendMessage(c.id, message, ok)
                  IN  Outcome(r.err, <<create>> \o r.calls)

\* SendFile has no guard on the channel.
SendFile(channel, name, ok) ==
    IF Session = 0 THEN NilSessionPanic
    ELSE Outcome(TransportErr(ok),
                 <<[call |-> "ChannelFileSend", channel |-> channel, body |-> name]>>)

\* Join: inv is what d.Session.Invite answered ([ok, guild]), ok whether
\* d.Session.InviteAccept succeeds when it is called.
JoinMut(join, inv, ok) ==
    IF Session = 0 THEN NilSessionPanic
    ELSE Outcome(IF inv.ok /\ Guild(inv.guild).err = ErrNil
                    THEN ErrAlreadyJoined ELSE TransportErr(ok),
                 <<[call |-> "Invite", channel |-> join, body |-> EmptyStr],
                   [call |-> "InviteAccept", channel |-> join, body |-> EmptyStr]>>)

Join(join, inv, ok) ==
    IF Session = 0 THEN NilSessionPanic
    ELSE IF inv.ok /\ Guild(inv.guild).err = ErrNil
         THEN Outcome(ErrAlreadyJoined,
                      <<[call |-> "Invite", channel |-> join, body |-> EmptyStr]>>)
    ELSE Outcome(TransportErr(ok),
                 <<[call |-> "Invite", channel |-> join, body |-> EmptyStr],
                   [call |-> "InviteAccept", channel |-> join, body |-> EmptyStr]>>)

CallSendMessage(channel, ok) ==
    /\ CallStep
    /\ ret' = [op |-> "SendMessage", channel |-> channel, ok |-> ok,
                res |-> SendMessage(channel, Str("x"), ok)]

CallSendEmbedMessage(channel, ok) ==
    /\ CallStep
    /\ ret' = [op |-> "SendEmbedMessage", channel |-> channel, ok |-> ok,
                res |-> SendEmbedMessage(channel, Str("x"), ok)]

CallSendAction(channel, ok) ==
    /\ CallStep
    /\ ret' = [op |-> "SendAction", channel |-> channel, ok |-> ok,
                message |-> Str("x"), res |-> SendAction(channel, Str("x"), ok)]

CallSendFile(channel, ok) ==
    /\ CallStep
    /\ ret' = [op |-> "SendFile", channel |-> channel, ok |-> ok,
                res |-> SendFile(channel, Str("f"), ok)]

CallJoin(inv, ok) ==
    /\ CallStep
    /\ ret' = [op |-> "Join", inv |-> inv, ok |-> ok,
                res |-> Join(Str("j"), inv, ok)]

\* A call of DeleteMessage, BanUser, UnbanUser or Typing.
CallModeration(op, channel, ok) ==
    /\ CallStep
    /\ ret' = [op |-> op, channel |-> channel, ok |-> ok,
                res |-> CASE op = "DeleteMessage" ->
                                 DeleteMessage(channel, Str("9"), ok)
                          [] op = "BanUser" -> BanUser(channel, "u1", 7, ok)
                          [] op = "UnbanUser" -> UnbanUser(channel, "u1", ok)
                          [] op = "Typing" -> Typing(channel, ok)]

CallPrivateMessage(c, ok) ==
    /\ CallStep
    /\ ret' = [op |-> "PrivateMessage", channel |-> Str("u"), created |-> c,
                ok |-> ok, res |-> PrivateMessage(Str("u"), Str("x"), c, ok)]

(***************************************************************************)
(* The authorization predicates                                            *)
(***************************************************************************)
\* d.OwnerUserID, set when the client is configured.
OwnerUserID == "own"

\* DiscordMessage.UserID()
MessageUserID(m) ==
    IF m.DiscordgoMessage.Author.nil THEN "" ELSE m.DiscordgoMessage.Author.ID

IsBotOwner(m) == MessageUserID(m) = OwnerUserID

\* A predicate's answer, or the nil dereference it ran into.
Answer(b) == [val |-> b, panic |-> FALSE]
AnswerPanic == [val |-> FALSE, panic |-> TRUE]

IsChannelOwner(m) ==
    LET c == Channel(m.DiscordgoMessage.ChannelID)
    IN  IF c.panic THEN AnswerPanic
        ELSE IF c.err # ErrNil THEN Answer(FALSE)
        ELSE IF c.val.nil THEN AnswerPanic
        ELSE LET g == Guild(c.val.GuildID)
             IN  IF g.panic THEN AnswerPanic
                 ELSE IF g.err # ErrNil THEN Answer(FALSE)
                 ELSE IF g.val.nil THEN AnswerPanic
                 ELSE Answer(g.val.OwnerID = MessageUserID(m) \/ IsBotOwner(m))

IsModerator(m) ==
    LET p == UserChannelPermissions(MessageUserID(m), m.DiscordgoMessage.ChannelID)
    IN  IF p.panic THEN AnswerPanic
        ELSE IF /\ p.err = ErrNil
                /\ \/ HasBit(p.val, PermissionAdministrator)
                   \/ HasBit(p.val, PermissionManageChannels)
                   \/ HasBit(p.val, PermissionManageServer)
             THEN Answer(TRUE)
        ELSE IsChannelOwner(m)

CallIsChannelOwner(p) ==
    /\ CallStep
    /\ p \in Received
    /\ ret' = [op |-> "IsChannelOwner", p |-> p, res |-> IsChannelOwner(heap[p])]

CallIsModerator(p) ==
    /\ CallStep
    /\ p \in Received
    /\ ret' = [op |-> "IsModerator", p |-> p, res |-> IsModerator(heap[p])]

\* The cache contents and the arguments of the action gateway's specification.
Self == User("me", Str("m"), TRUE)
ActKey == <<"me", Str("1")>>
ActChannels == {EmptyStr, Str("1")}
ActPerms == {0, PermissionAdministrator, PermissionEmbedLinks + PermissionAdministrator}
ActInvites == {[ok |-> FALSE, guild |-> "g1"], [ok |-> TRUE, guild |-> "g1"],
               [ok |-> TRUE, guild |-> "g2"]}
ActCreates == {[ok |-> FALSE, id |-> EmptyStr], [ok |-> TRUE, id |-> EmptyStr],
               [ok |-> TRUE, id |-> Str("1")]}

CacheAct ==
    \/ \E s \in ShardIx : CacheReady(s, Self)
    \/ \E s \in ShardIx : CacheGuild(s, GuildRec("g1", "u1", <<>>, <<>>))
    \/ \E s \in ShardIx, p \in ActPerms : CachePerms(s, ActKey, p)
    \/ \E s \in ShardIx, c \in AggColors : CacheColor(s, ActKey, c)

NextAct ==
    \/ Open
    \/ CacheAct
    \/ \E c \in ActChannels, ok \in BOOLEAN : CallSendMessage(c, ok)
    \/ \E c \in ActChannels, ok \in BOOLEAN : CallSendEmbedMessage(c, ok)
    \/ \E c \in ActChannels, ok \in BOOLEAN : CallSendAction(c, ok)
    \/ \E c \in ActChannels, ok \in BOOLEAN : CallSendFile(c, ok)
    \/ \E inv \in ActInvites, ok \in BOOLEAN : CallJoin(inv, ok)

\* Every operation of the action gateway, with the bot's own permissions in
\* the cache of a shard or not.
CacheRetry ==
    \/ \E s \in ShardIx : CacheReady(s, Self)
    \/ \E s \in ShardIx : CacheGuild(s, GuildRec("g1", "u1", <<>>, <<>>))
    \/ \E s \in ShardIx : CachePerms(s, ActKey, PermissionEmbedLinks)

NextRetry ==
    \/ Open
    \/ CacheRetry
    \/ \E c \in ActChannels, ok \in BOOLEAN : CallSendMessage(c, ok)
    \/ \E c \in ActChannels, ok \in BOOLEAN : CallSendEmbedMessage(c, ok)
    \/ \E c \in ActChannels, ok \in BOOLEAN : CallSendAction(c, ok)
    \/ \E c \in ActChannels, ok \in BOOLEAN : CallSendFile(c, ok)
    \/ \E inv \in ActInvites, ok \in BOOLEAN : CallJoin(inv, ok)
    \/ \E op \in {"DeleteMessage", "BanUser", "UnbanUser", "Typing"},
          c \in ActChannels, ok \in BOOLEAN : CallModeration(op, c, ok)
    \/ \E c \in ActCreates, ok \in BOOLEAN : CallPrivateMessage(c, ok)

\* The message, cache contents and calls of the memoisation specifications:
\* the first event, with a channel mention, written by a member of guild g1.
MemoMessage ==
    GoMessage(1, Str("1"), <<"<", "#", "1", ">">>, User("u1", Str("n"), FALSE), <<>>)
MemoChannels == {ChannelRec(Str("1"), Str(n), "g1", TypeText) : n \in {"a", "b"}}
MemoGuilds ==
    {GuildRec("g1", "u1", <<>>, <<Member(User("u1", Str("n"), FALSE), nick)>>) :
        nick \in {EmptyStr, Str("k")}}

CacheMemo ==
    \/ \E s \in ShardIx, c \in MemoChannels : CacheChannel(s, c)
    \/ \E s \in ShardIx, g \in MemoGuilds : CacheGuild(s, g)

Queue ==
    \/ \E s \in ShardIx : ChanSend(s)
    \/ \E s \in ShardIx : ChanHandoff(s)
    \/ Receive

ConsumerSteps ==
    \/ \E k \in Consumers : MessageRoleNames(k)
    \/ \E k \in Consumers : MessageChannelNames(k)
    \/ \E k \in Consumers : MessageStore(k)
    \/ \E k \in Consumers : MessageReturn(k)
    \/ \E k \in Consumers : UserNameStore(k)
    \/ \E k \in Consumers : UserNameReturn(k)

\* No consumer is inside a call of Message() or UserName().
AllIdle == \A k \in Consumers : cons[k].pc = "idle"

\* Concurrent consumers of one instance.
NextMemo ==
    \/ Open
    \/ CacheMemo
    \/ \E s \in ShardIx : onMessageCreate(s, MemoMessage)
    \/ Queue
    \/ \E k \in Consumers : MessageBegin(k, 1)
    \/ \E k \in Consumers : UserNameBegin(k, 1)
    \/ ConsumerSteps

\* Calls of Message() and UserName() that do not overlap.
NextSeq ==
    \/ Open
    \/ CacheMemo
    \/ \E s \in ShardIx : onMessageCreate(s, MemoMessage)
    \/ Queue
    \/ \E k \in Consumers : AllIdle /\ MessageBegin(k, 1)
    \/ \E k \in Consumers : AllIdle /\ UserNameBegin(k, 1)
    \/ ConsumerSteps

\* The message bodies, cache contents and calls of the normaliser's
\* specification: bodies are up to MaxPieces pieces, each a mention token, a
\* broken token or plain text; channel 2 is cached by no shard; one consumer
\* calls Message() on the first message.
NormPieces ==
    {<<"<", "#", "1", ">">>, <<"<", "#", "2", ">">>, <<"<", "#", ">">>,
     <<"<", "#">>, <<"a">>}

RECURSIVE Bodies(_)
Bodies(n) ==
    IF n = 0 THEN {EmptyStr}
    ELSE Bodies(n - 1) \cup {b \o q : b \in Bodies(n - 1), q \in NormPieces}

NormMessages ==
    {GoMessage(1, Str("1"), b, User("u1", Str("n"), FALSE), <<>>) :
        b \in Bodies(MaxPieces)}
NormChannels ==
    {ChannelRec(Str("1"), n, "g1", TypeText) : n \in {Str("g"), <<"<", "#", "2", ">">>}}

NextNorm ==
    \/ Open
    \/ \E s \in ShardIx, c \in NormChannels : CacheChannel(s, c)
    \/ events = <<>> /\ \E s \in ShardIx, m \in NormMessages : onMessageCreate(s, m)
    \/ Queue
    \/ MessageBegin(1, 1)
    \/ MessageRoleNames(1)
    \/ MessageChannelNames(1)
    \/ MessageStore(1)
    \/ MessageReturn(1)

\* The message bodies, cache contents and calls of the role pass's
\* specification: bodies are up to MaxPieces pieces, each a role mention, a
\* mention of a role the guild does not have, a mention without digits or a
\* broken token; the message's channel belongs to guild g1, whose role list
\* holds role 1 in second place; one consumer calls Message().
RolePieces ==
    {<<"<", "@", "&", "1", ">">>, <<"<", "@", "&", "2", ">">>,
     <<"<", "@", "&", ">">>, <<"<", "@", "&">>}

RECURSIVE RoleBodies(_)
RoleBodies(n) ==
    IF n = 0 THEN {EmptyStr}
    ELSE RoleBodies(n - 1) \cup {b \o q : b \in RoleBodies(n - 1), q \in RolePieces}

RoleMessages ==
    {GoMessage(1, Str("1"), b, User("u1", Str("n"), FALSE), <<>>) :
        b \in RoleBodies(MaxPieces)}
RoleChannel == ChannelRec(Str("1"), Str("c"), "g1", TypeText)
RoleGuild ==
    GuildRec("g1", "u1", <<Role(Str("3"), Str("x")), Role(Str("1"), Str("r"))>>, <<>>)

NextRole ==
    \/ Open
    \/ \E s \in ShardIx : CacheChannel(s, RoleChannel)
    \/ \E s \in ShardIx : CacheGuild(s, RoleGuild)
    \/ events = <<>> /\ \E s \in ShardIx, m \in RoleMessages : onMessageCreate(s, m)
    \/ Queue
    \/ MessageBegin(1, 1)
    \/ MessageRoleNames(1)
    \/ MessageChannelNames(1)
    \/ MessageStore(1)
    \/ MessageReturn(1)

\* The message bodies, cache contents and calls of the specification of the
\* order of the passes: bodies are up to MaxPieces mentions of channel 1 and
\* role 1; the channel's name may read as a mention of role 1 and the role's
\* name as a mention of channel 1; the caches change between the calls of
\* Message(), not during one.
OrderPieces == {<<"<", "#", "1", ">">>, <<"<", "@", "&", "1", ">">>}

RECURSIVE OrderBodies(_)
OrderBodies(n) ==
    IF n = 0 THEN {EmptyStr}
    ELSE OrderBodies(n - 1) \cup {b \o q : b \in OrderBodies(n - 1), q \in OrderPieces}

OrderMessages ==
    {GoMessage(1, Str("1"), b, User("u1", Str("n"), FALSE), <<>>) :
        b \in OrderBodies(MaxPieces)}
OrderChannels ==
    {ChannelRec(Str("1"), n, "g1", TypeText) :
        n \in {Str("c"), <<"<", "@", "&", "1", ">">>}}
OrderGuilds ==
    {GuildRec("g1", "u1", <<Role(Str("1"), n)>>, <<>>) :
        n \in {Str("r"), <<"<", "#", "1", ">">>}}

NextOrder ==
    \/ Open
    \/ AllIdle /\ \E s \in ShardIx, c \in OrderChannels : CacheChannel(s, c)
    \/ AllIdle /\ \E s \in ShardIx, g \in OrderGuilds : CacheGuild(s, g)
    \/ events = <<>> /\ \E s \in ShardIx, m \in OrderMessages : onMessageCreate(s, m)
    \/ Queue
    \/ MessageBegin(1, 1)
    \/ MessageRoleNames(1)
    \/ MessageChannelNames(1)
    \/ MessageStore(1)
    \/ MessageReturn(1)

\* The messages, cache contents and calls of the display name's
\* specification: the author is user u1 or missing; the message's channel
\* belongs to guild g1, whose member list holds u1 with or without a nick,
\* twice, behind another member or not at all; the caches change between the
\* calls of UserName(), not during one.
NameMessages ==
    {GoMessage(1, Str("1"), Str("x"), a, <<>>) :
        a \in {NilAuthor, User("u1", Str("n"), FALSE)}}
NameChannel == ChannelRec(Str("1"), Str("c"), "g1", TypeText)
NameMembers ==
    {<<Member(User("u1", Str("n"), FALSE), EmptyStr)>>,
     <<Member(User("u1", Str("n"), FALSE), EmptyStr),
       Member(User("u1", Str("n"), FALSE), Str("z"))>>,
     <<Member(User("u2", Str("b"), FALSE), Str("q")),
       Member(User("u1", Str("n"), FALSE), Str("k"))>>,
     <<Member(User("u2", Str("b"), FALSE), Str("q"))>>}
NameGuilds == {GuildRec("g1", "u2", <<>>, m) : m \in NameMembers}

NextName ==
    \/ Open
    \/ AllIdle /\ \E s \in ShardIx : CacheChannel(s, NameChannel)
    \/ AllIdle /\ \E s \in ShardIx, g \in NameGuilds : CacheGuild(s, g)
    \/ events = <<>> /\ \E s \in ShardIx, m \in NameMessages : onMessageCreate(s, m)
    \/ Queue
    \/ UserNameBegin(1, 1)
    \/ UserNameStore(1)
    \/ UserNameReturn(1)

\* The messages, cache contents and calls of the authorization predicates'
\* specification: the author is user u1, the bot's owner or missing; the
\* message's channel belongs to guild g1, created by u1 or by someone else;
\* the shards may know u1's permission bits in the channel.
AuthMessages ==
    {GoMessage(1, Str("1"), Str("x"), a, <<>>) :
        a \in {NilAuthor, User("u1", Str("n"), FALSE),
               User(OwnerUserID, Str("o"), FALSE)}}
AuthChannel == ChannelRec(Str("1"), Str("c"), "g1", TypeText)
AuthGuilds == {GuildRec("g1", o, <<>>, <<>>) : o \in {"u1", "u2"}}
AuthPerms ==
    {0, PermissionAdministrator, PermissionManageChannels, PermissionManageServer,
     PermissionEmbedLinks}

NextAuth ==
    \/ Open
    \/ \E s \in ShardIx : CacheChannel(s, AuthChannel)
    \/ \E s \in ShardIx, g \in AuthGuilds : CacheGuild(s, g)
    \/ \E s \in ShardIx, p \in AuthPerms : CachePerms(s, <<"u1", Str("1")>>, p)
    \/ events = <<>> /\ \E s \in ShardIx, m \in AuthMessages : onMessageCreate(s, m)
    \/ Queue
    \/ CallIsChannelOwner(1)
    \/ CallIsModerator(1)

\* The events of the dispatcher's specification: present or empty content, a
\* missing, human or automated author.
Contents == {EmptyStr, Str("x")}
Authors == {NilAuthor, User("u1", Str("n"), FALSE), User("u2", Str("b"), TRUE)}

DispatchMessages(id) ==
    {GoMessage(id, Str("1"), c, a, <<>>) : c \in Contents, a \in Authors}

\* The events the gateway may deliver next.
Pending ==
    IF Len(events) < MaxEvents THEN DispatchMessages(Len(events) + 1) ELSE {}

Init ==
    /\ openpc = "idle"
    /\ openI = 0
    /\ shards = 0
    /\ openRet = [chan |-> FALSE, err |-> FALSE]
    /\ Sessions = <<>>
    /\ Session = 0
    /\ openLog = <<>>
    /\ events = <<>>
    /\ heap = <<>>
    /\ cb = [s \in ShardIx |-> 0]
    /\ messageChan = <<>>
    /\ received = <<>>
    /\ cacheOps = 0
    /\ ret = NoCall
    /\ cons = [k \in Consumers |-> Idle]
    /\ firstRet = [p \in 1..MaxEvents |->
                     [Content |-> <<>>, Nick |-> <<>>, late |-> {}]]

Next ==
    \/ Open
    \/ \E s \in ShardIx, m \in Pending : onMessageCreate(s, m)
    \/ \E s \in ShardIx, m \in Pending : onMessageUpdate(s, m)
    \/ \E s \in ShardIx, m \in Pending : onMessageDelete(s, m)
    \/ \E s \in ShardIx : ChanSend(s)
    \/ \E s \in ShardIx : ChanHandoff(s)
    \/ Receive

Spec == Init /\ [][Next]_vars

\* The dispatcher with events that differ only in passing the filter or not.
BackMessages(id) ==
    {GoMessage(id, Str("1"), c, NilAuthor, <<>>) : c \in Contents}

BackPending ==
    IF Len(events) < MaxEvents THEN BackMessages(Len(events) + 1) ELSE {}

NextBack ==
    \/ Open
    \/ \E s \in ShardIx, m \in BackPending : onMessageCreate(s, m)
    \/ \E s \in ShardIx, m \in BackPending : onMessageUpdate(s, m)
    \/ \E s \in ShardIx, m \in BackPending : onMessageDelete(s, m)
    \/ \E s \in ShardIx : ChanSend(s)
    \/ \E s \in ShardIx : ChanHandoff(s)
    \/ Receive

\* Open() runs to its return; the consumer keeps receiving; a send that stays
\* possible, the channel having room or the consumer waiting, completes.
Fairness ==
    /\ WF_vars(Open)
    /\ WF_vars(Receive)
    /\ \A s \in ShardIx : WF_vars(ChanSend(s) \/ ChanHandoff(s))

SpecBack == Init /\ [][NextBack]_vars /\ Fairness

SpecAgg == Init /\ [][NextAgg]_vars

SpecAct == Init /\ [][NextAct]_vars

SpecMemo == Init /\ [][NextMemo]_vars

SpecSeq == Init /\ [][NextSeq]_vars

SpecNorm == Init /\ [][NextNorm]_vars

SpecRole == Init /\ [][NextRole]_vars

SpecOrder == Init /\ [][NextOrder]_vars

SpecName == Init /\ [][NextName]_vars

SpecAuth == Init /\ [][NextAuth]_vars

SpecRetry == Init /\ [][NextRetry]_vars

(***************************************************************************)
(* Event dispatcher: the filter                                            *)
(***************************************************************************)
\* The pointers placed on the output queue so far: buffered or received.
Queued == {messageChan[k] : k \in 1..Len(messageChan)} \cup
          {received[k] : k \in 1..Len(received)}

QueuedFor(e) == {p \in Queued : heap[p].DiscordgoMessage.ID = e.msg.ID}

EmptyOrBot(e) ==
    \/ Len(e.msg.Content) = 0
    \/ (~e.msg.Author.nil /\ e.msg.Author.Bot)

\* The callback that took event k has returned.
Returned(k) ==
    \/ cb[events[k].shard] = 0
    \/ heap[cb[events[k].shard]].DiscordgoMessage.ID # events[k].msg.ID

\* C1: a Create or Update event whose raw content is empty or whose author is
\* a bot never has a Message on the output queue, whatever the interleaving
\* of the shards' callbacks.
C1_FilteredNeverQueued ==
    \A k \in 1..Len(events) :
        (events[k].kind \in {MessageTypeCreate, MessageTypeUpdate}
            /\ EmptyOrBot(events[k]))
        => QueuedFor(events[k]) = {}

\* Both shards have delivered an event, one dropped for its bot author and one
\* passed on to the queue.
C1_Witness ==
    \E j, k \in 1..Len(events) :
        /\ events[j].shard # events[k].shard
        /\ events[j].kind = MessageTypeCreate
        /\ events[j].msg.Content # EmptyStr
        /\ ~events[j].msg.Author.nil /\ events[j].msg.Author.Bot
        /\ events[k].kind = MessageTypeUpdate
        /\ QueuedFor(events[k]) # {}

\* C2: every Delete event whose callback has returned is on the output queue
\* as exactly one Message, tagged Delete, whatever its content and author.
C2_DeleteAlwaysQueued ==
    \A k \in 1..Len(events) :
        (events[k].kind = MessageTypeDelete /\ Returned(k))
        => /\ Cardinality(QueuedFor(events[k])) = 1
           /\ \A p \in QueuedFor(events[k]) :
                  heap[p].MessageType = MessageTypeDelete

\* A Delete event with empty content and a bot author was received.
C2_Witness ==
    \E k \in 1..Len(events), r \in 1..Len(received) :
        /\ events[k].kind = MessageTypeDelete
        /\ events[k].msg.Content = EmptyStr
        /\ ~events[k].msg.Author.nil /\ events[k].msg.Author.Bot
        /\ heap[received[r]].DiscordgoMessage.ID = events[k].msg.ID

(***************************************************************************)
(* State aggregator: single-key lookups                                    *)
(***************************************************************************)
Min(S) == CHOOSE x \in S : \A y \in S : x <= y

Shards == {i \in 1..Len(Sessions) : ~Sessions[i].nil}

\* The shards whose cache holds the key the returned call asked for, and what
\* shard i holds for it.
Holders ==
    CASE ret.op = "Channel" ->
           {i \in Shards : ~Sessions[i].State.Channels[ret.id].nil}
      [] ret.op = "Guild" ->
           {i \in Shards : ~Sessions[i].State.Guilds[ret.id].nil}
      [] ret.op = "UserChannelPermissions" ->
           {i \in Shards : <<ret.user, ret.channel>> \in StateKeys
                            /\ Sessions[i].State.Perms[<<ret.user, ret.channel>>].known}
      [] OTHER -> {}

Held(i) ==
    CASE ret.op = "Channel" -> Sessions[i].State.Channels[ret.id]
      [] ret.op = "Guild" -> Sessions[i].State.Guilds[ret.id]
      [] ret.op = "UserChannelPermissions" ->
           Sessions[i].State.Perms[<<ret.user, ret.channel>>].val

IsLookup == ret.op \in {"Channel", "Guild", "UserChannelPermissions"}

\* C7: Channel, Guild and UserChannelPermissions return, with a nil error,
\* what the lowest-index shard holding the key holds, and consult no shard
\* after it.
C7_LowestShardWins ==
    (IsLookup /\ Holders # {})
    => /\ ~ret.res.panic
       /\ ret.res.err = ErrNil
       /\ ret.res.val = Held(Min(Holders))
       /\ ret.res.consulted = Min(Holders)

\* Two shards hold channel 1 under different names and Channel returned the
\* first shard's.
C7_Witness ==
    /\ ret.op = "Channel"
    /\ Cardinality(Holders) >= 2
    /\ \E i, j \in Holders : i < j /\ Held(i).Name # Held(j).Name
                               /\ ret.res.val = Held(i)

\* C8: when no shard of the list (the empty list included) holds the key, the
\* three lookups return a non-nil error.
C8_MissIsNotFound ==
    (IsLookup /\ Holders = {})
    => /\ ~ret.res.panic
       /\ ret.res.err # ErrNil

\* C9: UserColor returns 0 when no shard reports a non-zero colour (no data,
\* or a colour of exactly zero), and otherwise the colour of the lowest-index
\* shard reporting a non-zero one.
NonZero ==
    {i \in Shards : /\ Sessions[i].State.Colors[<<ret.user, ret.channel>>].known
                     /\ Sessions[i].State.Colors[<<ret.user, ret.channel>>].val # 0}

C9_UserColorSentinel ==
    ret.op = "UserColor"
    => /\ ~ret.res.panic
       /\ ret.res.val =
            IF NonZero = {} THEN 0
            ELSE Sessions[Min(NonZero)].State.Colors[<<ret.user, ret.channel>>].val

\* UserColor returned 0 for a user whose colour one shard caches as exactly
\* zero and another shard has no data for.
C9_Witness ==
    /\ ret.op = "UserColor"
    /\ ret.res.val = 0
    /\ \E i, j \in Shards :
          /\ Sessions[i].State.Colors[<<ret.user, ret.channel>>] = [known |-> TRUE, val |-> 0]
          /\ ~Sessions[j].State.Colors[<<ret.user, ret.channel>>].known

(***************************************************************************)
(* Action gateway: the empty target and Join                               *)
(***************************************************************************)
Calls(name) == {k \in 1..Len(ret.res.calls) : ret.res.calls[k].call = name}

\* C3: a send-family operation given an empty channel returns no error and
\* makes no call on the outbound transport.
C3_EmptyChannelNoCall ==
    (ret.op \in {"SendMessage", "SendEmbedMessage", "SendFile", "SendAction"}
        /\ ret.channel = EmptyStr)
    => /\ ret.res.err = ErrNil
       /\ ret.res.calls = <<>>

\* The guilds some shard's cache holds.
Joined == {g \in GuildIDs : \E i \in Shards : ~Sessions[i].State.Guilds[g].nil}

\* C4: when the invite resolves to a guild some shard caches, Join returns
\* ErrAlreadyJoined and never calls InviteAccept; when it resolves to a guild
\* no shard caches, Join calls InviteAccept once and returns its outcome.
C4_JoinAlreadyJoined ==
    (ret.op = "Join" /\ ~ret.res.panic /\ ret.inv.ok)
    => IF ret.inv.guild \in Joined
          THEN /\ ret.res.err = ErrAlreadyJoined
               /\ Calls("InviteAccept") = {}
          ELSE /\ Cardinality(Calls("InviteAccept")) = 1
               /\ ret.res.err = (IF ret.ok THEN ErrNil ELSE ErrTransport)

\* Join was refused for a guild that only the second shard caches.
C4_Witness ==
    /\ ret.op = "Join"
    /\ ret.inv.ok
    /\ ret.res.err = ErrAlreadyJoined
    /\ Len(Sessions) >= 2
    /\ Sessions[1].State.Guilds[ret.inv.guild].nil
    /\ ~Sessions[2].State.Guilds[ret.inv.guild].nil

(***************************************************************************)
(* The memoised fields                                                     *)
(***************************************************************************)
\* What Message() and UserName() would compute from the caches as they are.
Fresh(p) ==
    replaceChannelNames(heap[p].DiscordgoMessage,
        replaceRoleNames(heap[p].DiscordgoMessage,
            ContentWithMentionsReplaced(heap[p].DiscordgoMessage)).val).val

FreshNick(p) ==
    NicknameForID(heap[p].DiscordgoMessage.Author.ID,
                  heap[p].DiscordgoMessage.Author.Username,
                  heap[p].DiscordgoMessage.ChannelID).val

\* C5: a call of Message() that began after the first call of Message() on the
\* instance had returned returns what that first call returned, and likewise
\* for UserName() on a message with an author, whatever changed in the shards'
\* caches between the calls.
C5_MemoStable ==
    /\ (ret.op = "Message" /\ ret.late)
       => <<ret.val>> = firstRet[ret.p].Content
    /\ (ret.op = "UserName" /\ ret.late)
       => <<ret.val>> = firstRet[ret.p].Nick

\* The same, for calls that follow one another: no two calls on an instance
\* overlap (the specification SpecSeq).
MemoStableSeq ==
    /\ ret.op = "Message" => <<ret.val>> = firstRet[ret.p].Content
    /\ (ret.op = "UserName" /\ ~heap[ret.p].DiscordgoMessage.Author.nil)
       => <<ret.val>> = firstRet[ret.p].Nick

\* A later call of Message() returned the memoised content although the
\* caches now give another one, on an instance whose memoised display name
\* also differs from what the caches now give.
MemoStableSeqWitness ==
    /\ ret.op = "Message"
    /\ ret.memoised
    /\ ret.late
    /\ ret.val # Fresh(ret.p)
    /\ heap[ret.p].Nick # <<>>
    /\ heap[ret.p].Nick[1] # FreshNick(ret.p)

\* C6: with concurrent consumers of one instance, Content and Nick go from
\* unset to set once and never change afterwards.
C6_SetOnce ==
    [][\A p \in 1..Len(heap) :
          /\ heap[p].Content # <<>> => heap'[p].Content = heap[p].Content
          /\ heap[p].Nick # <<>> => heap'[p].Nick = heap[p].Nick]_vars

(***************************************************************************)
(* Channel-mention normalisation                                           *)
(***************************************************************************)
\* The channel-mention tokens of s, as <<first, last>> positions: "<#", any
\* digits, ">".  A token holds one "<" and one ">", so no two overlap.
ChannelTokens(s) ==
    {t \in (1..Len(s)) \X (1..Len(s)) :
        /\ t[1] + 2 <= t[2]
        /\ s[t[1]] = "<" /\ s[t[1] + 1] = "#" /\ s[t[2]] = ">"
        /\ \A k \in (t[1] + 2)..(t[2] - 1) : s[k] \in Digits}

\* The shards whose cache holds channel id.
ChannelHolders(id) ==
    {i \in Shards : id \in ChannelIDs /\ ~Sessions[i].State.Channels[id].nil}

\* What a token becomes: "#" and the name the first shard holding the channel
\* gives it, or the token itself when no shard holds the channel.
TokenText(s, t) ==
    LET id == SubSeq(s, t[1] + 2, t[2] - 1)
    IN  IF ChannelHolders(id) = {} THEN SubSeq(s, t[1], t[2])
        ELSE <<"#">> \o Sessions[Min(ChannelHolders(id))].State.Channels[id].Name

RECURSIVE Flatten(_, _)
Flatten(parts, k) ==
    IF k > Len(parts) THEN <<>> ELSE parts[k] \o Flatten(parts, k + 1)

\* s with every token replaced by its text and everything else kept.
ChannelsNamed(s) ==
    Flatten([k \in 1..Len(s) |->
                IF \E t \in ChannelTokens(s) : t[1] = k
                   THEN TokenText(s, CHOOSE t \in ChannelTokens(s) : t[1] = k)
                ELSE IF \E t \in ChannelTokens(s) : t[1] < k /\ k <= t[2]
                   THEN <<>>
                ELSE <<s[k]>>], 1)

\* C10: replaceChannelNames replaces each channel-mention token whose channel
\* some shard holds by "#" and the channel's name, leaves a token whose
\* channel no shard holds as it is, and leaves all other text as it is.
C10_ChannelMentions ==
    ret.op = "replaceChannelNames"
    => /\ ~ret.out.panic
       /\ ret.out.val = ChannelsNamed(ret.in)

\* A body with a token of a cached channel followed by a token of a channel no
\* shard holds went through the pass: the first became "#g", the second stayed.
C10_Witness ==
    /\ ret.op = "replaceChannelNames"
    /\ ret.in = <<"<", "#", "1", ">", "<", "#", "2", ">">>
    /\ ret.out.val = <<"#", "g", "<", "#", "2", ">">>

(***************************************************************************)
(* Role-mention normalisation                                              *)
(***************************************************************************)
\* The role-mention tokens of s, as <<first, last>> positions: "<@&", any
\* digits, ">".
RoleTokens(s) ==
    {t \in (1..Len(s)) \X (1..Len(s)) :
        /\ t[1] + 3 <= t[2]
        /\ s[t[1]] = "<" /\ s[t[1] + 1] = "@" /\ s[t[1] + 2] = "&" /\ s[t[2]] = ">"
        /\ \A k \in (t[1] + 3)..(t[2] - 1) : s[k] \in Digits}

\* The shards whose cache holds guild id.
GuildHolders(id) ==
    {i \in Shards : id \in GuildIDs /\ ~Sessions[i].State.Guilds[id].nil}

\* The role list of the guild of channel id: of the first shard holding the
\* guild that the first shard holding the channel names; <<>> stands for a
\* channel or a guild that no shard holds.
RolesOf(id) ==
    IF ChannelHolders(id) = {} THEN <<>>
    ELSE LET g == Sessions[Min(ChannelHolders(id))].State.Channels[id].GuildID
         IN  IF GuildHolders(g) = {} THEN <<>>
             ELSE Sessions[Min(GuildHolders(g))].State.Guilds[g].Roles

\* What a role token of a message in the given channel becomes: "@" and the
\* name of the role with the token's id, or the token itself.
RoleTokenText(channel, s, t) ==
    LET id == SubSeq(s, t[1] + 3, t[2] - 1)
        roles == RolesOf(channel)
        with == {k \in 1..Len(roles) : roles[k].ID = id}
    IN  IF with = {} THEN SubSeq(s, t[1], t[2])
        ELSE <<"@">> \o roles[Min(with)].Name

RolesNamed(channel, s) ==
    Flatten([k \in 1..Len(s) |->
                IF \E t \in RoleTokens(s) : t[1] = k
                   THEN RoleTokenText(channel, s, CHOOSE t \in RoleTokens(s) : t[1] = k)
                ELSE IF \E t \in RoleTokens(s) : t[1] < k /\ k <= t[2]
                   THEN <<>>
                ELSE <<s[k]>>], 1)

\* C11: replaceRoleNames replaces each role-mention token by "@" and the name
\* of the role with that id in the guild of the message's channel, and leaves
\* the token as it is when no shard holds the channel, no shard holds the
\* guild or the guild has no role with that id.
C11_RoleMentions ==
    ret.op = "replaceRoleNames"
    => /\ ~ret.out.panic
       /\ ret.out.val = RolesNamed(heap[ret.p].DiscordgoMessage.ChannelID, ret.in)

\* A body mentioning role 1 and then role 2 went through the pass with the
\* channel held by one shard and its guild by another: role 1 became "@r",
\* role 2, which the guild does not have, stayed.
C11_Witness ==
    /\ ret.op = "replaceRoleNames"
    /\ ret.in = <<"<", "@", "&", "1", ">", "<", "@", "&", "2", ">">>
    /\ ret.out.val = <<"@", "r", "<", "@", "&", "2", ">">>
    /\ ChannelHolders(Str("1")) \cap GuildHolders("g1") = {}

\* A role mention stayed as it was because no shard holds the guild of the
\* message's channel.
C11_WitnessMiss ==
    /\ ret.op = "replaceRoleNames"
    /\ ret.in = <<"<", "@", "&", "1", ">">>
    /\ ret.out.val = ret.in
    /\ ChannelHolders(Str("1")) # {}
    /\ GuildHolders("g1") = {}

(***************************************************************************)
(* The order of the two passes                                             *)
(***************************************************************************)
\* The message of the call of Message() that returned.
Returning == heap[ret.p].DiscordgoMessage

\* C12 as stated: the content a first call of Message() computes is the role
\* pass applied to the channel pass applied to the raw body.
C12_ChannelThenRole ==
    (ret.op = "Message" /\ ~ret.memoised)
    => ret.val = RolesNamed(Returning.ChannelID, ChannelsNamed(Returning.Content))

\* C12 as amended: the content a first call of Message() computes is the
\* channel pass applied to the role pass applied to the body in which the
\* mentioned users were named.
C12_RoleThenChannel ==
    (ret.op = "Message" /\ ~ret.memoised)
    => ret.val = ChannelsNamed(RolesNamed(Returning.ChannelID,
                                          ContentWithMentionsReplaced(Returning)))

\* A mention of role 1, whose name reads "<#1>", became "@#c": the channel
\* pass ran on what the role pass had put in.
C12_Witness ==
    /\ ret.op = "Message"
    /\ ~ret.memoised
    /\ Returning.Content = <<"<", "@", "&", "1", ">">>
    /\ ret.val = <<"@", "#", "c">>

(***************************************************************************)
(* The display name                                                        *)
(***************************************************************************)
\* A call of UserName() returned what it computed itself.
Named == ret.op = "UserName" /\ ~ret.memoised

\* The guild the first shard holding channel id names for it.
GuildOf(id) == Sessions[Min(ChannelHolders(id))].State.Channels[id].GuildID

\* Some shard holds the channel and some shard holds its guild.
Resolves(id) == ChannelHolders(id) # {} /\ GuildHolders(GuildOf(id)) # {}

\* The member list of the guild of channel id.
MembersOf(id) == Sessions[Min(GuildHolders(GuildOf(id)))].State.Guilds[GuildOf(id)].Members

\* The places of the author in the member list of the message's guild.
AuthorAt ==
    {k \in 1..Len(MembersOf(Returning.ChannelID)) :
        MembersOf(Returning.ChannelID)[k].User.ID = Returning.Author.ID}

\* C13 as stated: when no shard holds the message's channel, or none holds the
\* channel's guild, UserName() returns the empty string.
C13_MissIsEmpty ==
    (Named /\ ~Resolves(Returning.ChannelID)) => ret.val = EmptyStr

\* C13 as amended: when no shard holds the message's channel, or none holds
\* the channel's guild, UserName() returns the author's global username, and
\* the empty string only for a message without an author.
C13_MissIsUsername ==
    (Named /\ ~Resolves(Returning.ChannelID))
    => ret.val = IF Returning.Author.nil THEN EmptyStr
                 ELSE Returning.Author.Username

\* UserName() returned the username "n" for a message whose channel a shard
\* holds and whose guild no shard holds.
C13_Witness ==
    /\ Named
    /\ ~Returning.Author.nil
    /\ ChannelHolders(Returning.ChannelID) # {}
    /\ ~Resolves(Returning.ChannelID)
    /\ ret.val = Str("n")

\* C14: when the channel and its guild resolve and the guild's member list
\* holds the author, UserName() returns the nick of the first entry for the
\* author if that nick is not empty, and the author's username if it is.
C14_NickOrUsername ==
    (Named /\ ~Returning.Author.nil /\ Resolves(Returning.ChannelID)
        /\ AuthorAt # {})
    => ret.val =
         IF MembersOf(Returning.ChannelID)[Min(AuthorAt)].Nick # EmptyStr
            THEN MembersOf(Returning.ChannelID)[Min(AuthorAt)].Nick
            ELSE Returning.Author.Username

\* The author is twice in the member list, first without a nick and then as
\* "z", and UserName() returned the username.
C14_Witness ==
    /\ Named
    /\ ~Returning.Author.nil
    /\ Resolves(Returning.ChannelID)
    /\ Cardinality(AuthorAt) = 2
    /\ ret.val = Returning.Author.Username

\* The author is behind another member in the list and UserName() returned
\* the author's nick.
C14_WitnessNick ==
    /\ Named
    /\ ~Returning.Author.nil
    /\ Resolves(Returning.ChannelID)
    /\ AuthorAt = {2}
    /\ ret.val = Str("k")

(***************************************************************************)
(* Open()                                                                  *)
(***************************************************************************)
Handlers == <<MessageTypeCreate, MessageTypeUpdate, MessageTypeDelete>>

\* Open() has returned an error.
Failed == openpc = "returned" /\ openRet.err

\* Open() has returned the queue and no error.
Succeeded == openpc = "returned" /\ ~openRet.err

\* Every one of the shard connections is constructed, with its callbacks.
AllConstructed ==
    /\ Len(Sessions) = shards
    /\ \A i \in 1..Len(Sessions) :
          ~Sessions[i].nil /\ Sessions[i].handlers = Handlers

\* An open was attempted on shard connection i.
Attempted(i) == ~Sessions[i].nil /\ Sessions[i].opened # "no"

\* C15: when Open() has returned without having constructed every shard
\* connection and named the primary one (the step that follows the
\* construction) it has returned an error, when it has returned an error no
\* shard connection was opened, and a shard connection is opened only when
\* all of them are constructed with their three callbacks.
C15_FailFast ==
    /\ (openpc = "returned" /\ (Session = 0 \/ ~AllConstructed)) => openRet.err
    /\ Failed => (openLog = <<>> /\ \A i \in 1..Len(Sessions) : ~Attempted(i))
    /\ (\E i \in 1..Len(Sessions) : Attempted(i)) => AllConstructed

\* Open() returned an error after constructing the first of two shard
\* connections: the second construction failed and nothing was opened.
C15_Witness ==
    /\ Failed
    /\ Len(Sessions) = 2
    /\ ~Sessions[1].nil
    /\ Sessions[2].nil
    /\ Sessions[1].opened = "no"

\* C16: when Open() has returned an error, the shard list and the primary
\* session are what they were before the call.
C16_NoPartialState ==
    Failed => (Sessions = <<>> /\ Session = 0)

\* C17: Open() never indexes the shard list out of range, and when it has
\* returned successfully the list has as many entries as the gateway
\* reported, entry i has ShardID i and that ShardCount and the three
\* callbacks, and an open was attempted once on every entry.
C17_OpenConfigures ==
    /\ openpc # "panic"
    /\ Succeeded
       => /\ AllConstructed
          /\ \A i \in 1..Len(Sessions) :
                /\ Sessions[i].ShardID = i - 1
                /\ Sessions[i].ShardCount = shards
                /\ Attempted(i)
          /\ openLog = [i \in 1..shards |-> i - 1]

(***************************************************************************)
(* Action gateway: SendAction                                              *)
(***************************************************************************)
\* The shards that know the permission bits of the client's own user in the
\* channel of the returned call, and those that report a colour for it.
SelfPermHolders ==
    {i \in Shards : /\ <<UserID, ret.channel>> \in StateKeys
                     /\ Sessions[i].State.Perms[<<UserID, ret.channel>>].known}
SelfColored ==
    {i \in Shards : /\ <<UserID, ret.channel>> \in StateKeys
                     /\ Sessions[i].State.Colors[<<UserID, ret.channel>>].known
                     /\ Sessions[i].State.Colors[<<UserID, ret.channel>>].val # 0}
SelfColor ==
    IF SelfColored = {} THEN 0
    ELSE Sessions[Min(SelfColored)].State.Colors[<<UserID, ret.channel>>].val

PlainText ==
    <<[call |-> "ChannelMessageSend", channel |-> ret.channel, body |-> ret.message]>>
Embed ==
    <<[call |-> "ChannelMessageSendEmbed", channel |-> ret.channel,
       body |-> [Color |-> SelfColor, Description |-> ret.message]]>>

\* C18: SendAction on a non-empty channel sends the plain text, and no embed,
\* when the client's own permission bits for the channel do not resolve or
\* lack the embed-links bit, and sends an embed of the message in the colour
\* of the client's own user, and no plain text, when the bit is set.
C18_SmartSend ==
    (ret.op = "SendAction" /\ ret.channel # EmptyStr /\ ~ret.res.panic)
    => ret.res.calls =
         IF SelfPermHolders = {} THEN PlainText
         ELSE IF HasBit(Sessions[Min(SelfPermHolders)]
                           .State.Perms[<<UserID, ret.channel>>].val,
                        PermissionEmbedLinks)
              THEN Embed
         ELSE PlainText

\* SendAction sent an embed in a colour other than 0.
C18_Witness ==
    /\ ret.op = "SendAction"
    /\ ret.res.calls = Embed
    /\ SelfColor # 0

\* SendAction sent the plain text because the permission bits, though known,
\* lack the embed-links bit.
C18_WitnessPlain ==
    /\ ret.op = "SendAction"
    /\ ret.res.calls = PlainText
    /\ SelfPermHolders # {}

(***************************************************************************)
(* The authorization predicates                                            *)
(***************************************************************************)
\* The author of the message the returned call was about, "" when missing.
Asker == MessageUserID(heap[ret.p])

\* The author created the guild that owns the message's channel.
CreatedGuild ==
    /\ Resolves(Returning.ChannelID)
    /\ Sessions[Min(GuildHolders(GuildOf(Returning.ChannelID)))]
          .State.Guilds[GuildOf(Returning.ChannelID)].OwnerID = Asker

\* The author is the creator of the guild or the configured owner of the bot.
OwnsChannel == CreatedGuild \/ Asker = OwnerUserID

\* The shards that know the author's permission bits in the channel.
AskerPermHolders ==
    {i \in Shards : /\ <<Asker, Returning.ChannelID>> \in StateKeys
                     /\ Sessions[i].State.Perms[<<Asker, Returning.ChannelID>>].known}

\* The author's resolved permission bits include administrator,
\* manage-channels or manage-server.
Manages ==
    /\ AskerPermHolders # {}
    /\ LET p == Sessions[Min(AskerPermHolders)]
                   .State.Perms[<<Asker, Returning.ChannelID>>].val
       IN  \/ HasBit(p, PermissionAdministrator)
           \/ HasBit(p, PermissionManageChannels)
           \/ HasBit(p, PermissionManageServer)

\* C19: IsChannelOwner answers true exactly when the author created the guild
\* owning the message's channel or is the configured owner of the bot (so for
\* every message of the bot's owner), and IsModerator answers true exactly
\* when the author's permission bits include administrator, manage-channels
\* or manage-server or the author owns the channel in that sense.
C19_Authorization ==
    /\ ret.op = "IsChannelOwner"
       => (~ret.res.panic /\ ret.res.val = OwnsChannel)
    /\ ret.op = "IsModerator"
       => (~ret.res.panic /\ ret.res.val = (Manages \/ OwnsChannel))

(***************************************************************************)
(* Dispatcher: order and tags                                              *)
(***************************************************************************)
\* Event k passed the filter: a Message was made for it.
Passed(k) == \E p \in 1..Len(heap) : heap[p].DiscordgoMessage.ID = k

\* The place of event k's Message among those the consumer received, 0 when
\* it was not received.
ReceivedAt(k) ==
    IF \E r \in 1..Len(received) : heap[received[r]].DiscordgoMessage.ID = k
       THEN CHOOSE r \in 1..Len(received) : heap[received[r]].DiscordgoMessage.ID = k
       ELSE 0

PassesFilter(k) ==
    events[k].kind = MessageTypeDelete \/ ~EmptyOrBot(events[k])

\* The places of event k's Message on the output queue, received or buffered.
Accepted(k) ==
    LET q == received \o messageChan
    IN  {i \in 1..Len(q) : heap[q[i]].DiscordgoMessage.ID = k}

\* A callback that has returned left exactly one Message on the queue, one
\* that has not returned left none: nothing is dropped or duplicated.
NoLoss ==
    \A k \in 1..Len(events) :
        PassesFilter(k) =>
            Cardinality(Accepted(k)) = IF Returned(k) THEN 1 ELSE 0

\* While the queue is full and the consumer receives nothing, a blocked
\* callback stays blocked and its shard delivers no further event.
Stalls ==
    (Len(messageChan) >= ChanCap /\ received' = received) =>
        \A s \in ShardIx :
            cb[s] # 0 =>
                /\ cb'[s] = cb[s]
                /\ Len(events') > Len(events) =>
                       events'[Len(events')].shard # s

\* The consumer has received the Message of event k.
Got(k) == \E r \in 1..Len(received) : heap[received[r]].DiscordgoMessage.ID = k

\* C21: a callback whose event passes the filter returns only once its
\* Message is on the output queue, exactly once; while the queue is full
\* and the consumer does not receive, every blocked producer stays blocked;
\* and when the consumer keeps receiving, every event that passes the filter
\* is eventually received.
C21_Backpressure ==
    /\ []NoLoss
    /\ [][Stalls]_vars
    /\ \A k \in 1..MaxEvents :
          (Len(events) >= k /\ PassesFilter(k)) ~> Got(k)

\* With both shards connected, the queue is full of a received-later Message
\* and the other shard's callback is blocked on a Delete it cannot enqueue.
C21_Witness ==
    /\ \A s \in ShardIx : Connected(s)
    /\ Len(messageChan) = ChanCap
    /\ \E s \in ShardIx :
          /\ cb[s] # 0
          /\ heap[cb[s]].MessageType = MessageTypeDelete
          /\ \E k \in 1..Len(events) :
                /\ events[k].shard # s
                /\ Cardinality(Accepted(k)) = 1

(***************************************************************************)
(* Open(): failures of the shard opens                                     *)
(***************************************************************************)
\* The construction loop is over and the primary session is named: Open() is
\* at its loop of shard opens or past it.
Constructed == Session # 0

\* The shard indexes 0..n-1 in ascending order.
Ascending(n) == [i \in 1..n |-> i - 1]

\* C22: once every shard connection is constructed, Open() opens the shards
\* in ascending order whatever the earlier opens returned, and it returns
\* the event queue and no error after an attempt on every shard, however
\* many of the opens failed.
C22_OpenFailuresIgnored ==
    /\ [](Constructed =>
            /\ AllConstructed
            /\ openpc \in {"opening", "returned"}
            /\ openLog = Ascending(Len(openLog))
            /\ openpc = "returned" =>
                   /\ openRet = [chan |-> TRUE, err |-> FALSE]
                   /\ openLog = Ascending(shards)
                   /\ \A i \in 1..Len(Sessions) : Attempted(i))
    /\ Constructed ~> Succeeded

\* Open() returned the queue and no error although the open of each of the
\* two shards failed.
C22_Witness ==
    /\ Succeeded
    /\ Len(Sessions) = 2
    /\ \A i \in 1..Len(Sessions) : Sessions[i].opened = "failed"
    /\ openLog = <<0, 1>>
    /\ openRet.chan

(***************************************************************************)
(* Action gateway: no retry                                                *)
(***************************************************************************)
\* The operations of the action gateway.
ActionOps ==
    {"SendMessage", "SendEmbedMessage", "SendAction", "SendFile",
     "DeleteMessage", "BanUser", "UnbanUser", "Typing", "Join",
     "PrivateMessage"}

\* The calls of the transport that send, delete, ban, unban, type or accept.
OutboundCalls ==
    {"ChannelMessageSend", "ChannelMessageSendEmbed", "ChannelFileSend",
     "ChannelMessageDelete", "GuildBanCreate", "GuildBanDelete",
     "ChannelTyping", "InviteAccept"}

\* The call that just returned was an action on a non-empty target that did
\* not dereference a nil session.
Acted ==
    /\ ret.op \in ActionOps
    /\ ~ret.res.panic
    /\ ret.op # "Join" => ret.channel # EmptyStr

\* The places of the outbound calls among the calls the operation made.
Outbound ==
    {i \in 1..Len(ret.res.calls) : ret.res.calls[i].call \in OutboundCalls}

\* C23: an action on a non-empty target makes at most one outbound call and,
\* when it makes one, returns the error of that call and nothing else;
\* SendAction makes exactly one send, an embed or a text, and a failed embed
\* is returned as the error with no text send after it.
C23_NoRetry ==
    Acted =>
        /\ Cardinality(Outbound) <= 1
        /\ Outbound # {} => ret.res.err = TransportErr(ret.ok)
        /\ ret.op = "SendAction" =>
               /\ Cardinality(Outbound) = 1
               /\ Len(ret.res.calls) = 1
               /\ ret.res.calls[1].call \in
                      {"ChannelMessageSend", "ChannelMessageSendEmbed"}

\* SendAction sent an embed, the send failed, and the call returned that
\* error having made no other call.
C23_Witness ==
    /\ Acted
    /\ ret.op = "SendAction"
    /\ ~ret.ok
    /\ ret.res.err = ErrTransport
    /\ Len(ret.res.calls) = 1
    /\ ret.res.calls[1].call = "ChannelMessageSendEmbed"

\* PrivateMessage opened the user's channel and its one send failed.
C23_WitnessPrivate ==
    /\ Acted
    /\ ret.op = "PrivateMessage"
    /\ ret.res.err = ErrTransport
    /\ Len(ret.res.calls) = 2
    /\ ret.res.calls[2].call = "ChannelMessageSend"

====
